---- MODULE Spec2Model ----
(***************************************************************************)
(* Model of finddiffentsing.py: text canonicalisation (deep_clean_text),   *)
(* interpretation extraction (extract_artist_title_comprehensive), index   *)
(* construction (build_smart_index), similarity scoring                    *)
(* (calculate_similarity, with IEEE-754 binary64 arithmetic modelled on    *)
(* bit vectors) and the exact/fuzzy cross match                            *)
(* (find_unique_with_cross_check).                                         *)
(*                                                                         *)
(* A Python str is a sequence of one-character strings.  The two dash      *)
(* characters U+2014 and U+2013 are written "emdash" and "endash".         *)
(***************************************************************************)
EXTENDS Integers, Sequences, FiniteSets, TLC

VARIABLES
    pc,             \* position of the running entry point
    folder1,        \* first folder: [kind, listing]
    folder2,        \* second folder: [kind, listing]
    index1,         \* file_index of folder1 (insertion ordered dict)
    reverse1,       \* reverse_index of folder1 (insertion ordered dict)
    diag1,          \* counters printed by build_smart_index for folder1
    index2,         \* file_index of folder2
    reverse2,       \* reverse_index of folder2
    diag2,          \* counters printed by build_smart_index for folder2
    unique_songs,   \* list of unmatched filenames of folder2
    match_details,  \* list of match tuples
    pos,            \* position of the matching loop in index2
    c_in,           \* deep_clean_text: input text
    c_once,         \* deep_clean_text(c_in)
    c_twice,        \* deep_clean_text(deep_clean_text(c_in))
    s_a,            \* calculate_similarity: first argument
    s_b,            \* calculate_similarity: second argument
    s_ab,           \* calculate_similarity(s_a, s_b)
    s_ba            \* calculate_similarity(s_b, s_a)

vars == <<pc, folder1, folder2, index1, reverse1, diag1, index2, reverse2,
          diag2, unique_songs, match_details, pos, c_in, c_once, c_twice,
          s_a, s_b, s_ab, s_ba>>

matchVars == <<folder1, folder2, index1, reverse1, diag1, index2, reverse2,
               diag2, unique_songs, match_details, pos>>

canonVars == <<c_in, c_once, c_twice>>

simVars == <<s_a, s_b, s_ab, s_ba>>

(***************************************************************************)
(* Characters and elementary str operations                                *)
(***************************************************************************)
LowerSeq ==
    <<"a","b","c","d","e","f","g","h","i","j","k","l","m",
      "n","o","p","q","r","s","t","u","v","w","x","y","z">>

UpperSeq ==
    <<"A","B","C","D","E","F","G","H","I","J","K","L","M",
      "N","O","P","Q","R","S","T","U","V","W","X","Y","Z">>

Digits == {"0","1","2","3","4","5","6","7","8","9"}

Range(s) == {s[i] : i \in 1..Len(s)}

\* \s of the re module, restricted to the blank
IsSpace(c) == c = " "

\* \w of the re module on str patterns: letters, digits and the underscore
WordChars == Range(LowerSeq) \cup Range(UpperSeq) \cup Digits \cup {"_"}

IsWord(c) == c \in WordChars

UpperChars == Range(UpperSeq)

\* str.lower() on one character
LowerChar(c) ==
    IF c \in UpperChars
    THEN LowerSeq[CHOOSE i \in 1..Len(UpperSeq) : UpperSeq[i] = c]
    ELSE c

Lower(s) == SubSeq([i \in 1..Len(s) |-> LowerChar(s[i])], 1, Len(s))

\* str.strip(): drop leading and trailing whitespace
Strip(s) ==
    LET keep == {i \in 1..Len(s) : ~IsSpace(s[i])}
    IN IF keep = {} THEN <<>>
       ELSE LET lo == CHOOSE i \in keep : \A j \in keep : i <= j
                hi == CHOOSE i \in keep : \A j \in keep : j <= i
            IN SubSeq(s, lo, hi)

\* least element of a non-empty set of positions
MinOf(S) == CHOOSE i \in S : \A j \in S : i <= j

\* s[i:] of Python with a 1-based i
From(s, i) == SubSeq(s, i, Len(s))

\* `pat` occurs in s at position i, "." of a pattern matching any character
MatchesAt(s, i, pat, wild) ==
    /\ i + Len(pat) - 1 <= Len(s)
    /\ \A k \in 1..Len(pat) :
          \/ s[i + k - 1] = pat[k]
          \/ wild /\ pat[k] = "."

\* str.find: first position of the literal sep in s, 0 when absent
Find(s, sep) ==
    LET hits == {i \in 1..Len(s) : MatchesAt(s, i, sep, FALSE)}
    IN IF hits = {} THEN 0 ELSE CHOOSE i \in hits : \A j \in hits : i <= j

\* str.endswith
EndsWith(s, suffix) ==
    /\ Len(s) >= Len(suffix)
    /\ SubSeq(s, Len(s) - Len(suffix) + 1, Len(s)) = suffix

(***************************************************************************)
(* deep_clean_text                                                         *)
(***************************************************************************)
\* \b between s[p] and s[p+1]; outside the text counts as a non-word
Boundary(s, p) ==
    LET left  == p >= 1 /\ IsWord(s[p])
        right == p + 1 <= Len(s) /\ IsWord(s[p + 1])
    IN left # right

\* positions from i on of an opening bracket with a closing one after it
Openers(s, i) ==
    {j \in i..Len(s) :
       /\ s[j] \in {"(", "["}
       /\ \E k \in (j + 1)..Len(s) : s[k] \in {")", "]"}}

\* re.sub(r'[\(\[].*?[\)\]]', '', text): leftmost, shortest span
RECURSIVE RemoveBrackets(_, _)
BracketCut(s, i, open) ==
    SubSeq(s, i, open - 1)
    \o RemoveBrackets(s, MinOf({k \in (open + 1)..Len(s) : s[k] \in {")", "]"}}) + 1)

BracketsFrom(s, i, openers) ==
    IF openers = {} THEN From(s, i) ELSE BracketCut(s, i, MinOf(openers))

RemoveBrackets(s, i) == BracketsFrom(s, i, Openers(s, i))

version_markers ==
    << <<"l","i","v","e">>,
       <<"v","e","r",".">>,
       <<"v","e","r","s","i","o","n">>,
       <<"r","e","m","i","x">>,
       <<"a","c","o","u","s","t","i","c">>,
       <<"i","n","s","t","r","u","m","e","n","t","a","l">>,
       <<"d","e","m","o">>,
       <<"e","d","i","t">>,
       <<"m","i","x">>,
       <<"f","e","a","t",".">>,
       <<"f","t",".">> >>

\* re.sub(rf'\b{marker}\b', '', text): the marker is used as a pattern, so
\* its "." matches any character
MarkerAt(s, marker, j) ==
    /\ MatchesAt(s, j, marker, TRUE)
    /\ Boundary(s, j - 1)
    /\ Boundary(s, j + Len(marker) - 1)

RECURSIVE RemoveMarker(_, _, _)
MarkerCut(s, marker, i, hit) ==
    SubSeq(s, i, hit - 1) \o RemoveMarker(s, marker, hit + Len(marker))

MarkerFrom(s, marker, i, hits) ==
    IF hits = {} THEN From(s, i) ELSE MarkerCut(s, marker, i, MinOf(hits))

RemoveMarker(s, marker, i) ==
    MarkerFrom(s, marker, i, {j \in i..Len(s) : MarkerAt(s, marker, j)})

\* for marker in version_markers: text = re.sub(...)
RECURSIVE RemoveMarkers(_, _)
RemoveMarkers(s, k) ==
    IF k > Len(version_markers) \/ Len(s) = 0 THEN s
    ELSE RemoveMarkers(RemoveMarker(s, version_markers[k], 1), k + 1)

\* re.sub(r'[^\w\u4e00-\u9fff\s]', ' ', text); the CJK range lies inside \w
ReplaceSpecial(s) ==
    SubSeq([i \in 1..Len(s) |->
              IF IsWord(s[i]) \/ IsSpace(s[i]) THEN s[i] ELSE " "], 1, Len(s))

\* re.sub(r'\s+', ' ', text): a run of blanks keeps its first blank
RECURSIVE MergeSpaces(_, _)
SpaceCut(s, i, second) == SubSeq(s, i, second - 1) \o MergeSpaces(s, second + 1)

SpacesFrom(s, i, seconds) ==
    IF seconds = {} THEN From(s, i) ELSE SpaceCut(s, i, MinOf(seconds))

MergeSpaces(s, i) ==
    SpacesFrom(s, i, {j \in i..Len(s) :
                        IsSpace(s[j]) /\ j > 1 /\ IsSpace(s[j - 1])})

deep_clean_text(text) ==
    IF text = <<>> THEN <<>>
    ELSE LET lowered   == Strip(Lower(text))
             unbracket == RemoveBrackets(lowered, 1)
             unmarked  == RemoveMarkers(unbracket, 1)
             plain     == ReplaceSpecial(unmarked)
         IN Strip(MergeSpaces(plain, 1))

(***************************************************************************)
(* Python float: IEEE-754 binary64, round to nearest, ties to even.        *)
(* A value is a vector of IntBits + FracBits bits, most significant first; *)
(* bit i weighs 2^(IntBits - i).  The width holds every value the scorer   *)
(* produces exactly (quotients d/m with 0 < d <= m < 2^10, their           *)
(* complements to 1.0, sums of two of these) together with the guard and   *)
(* sticky positions of the quotient.                                       *)
(***************************************************************************)
Mantissa == 53

IntBits == 2

FracBits == Mantissa + 11

Width == IntBits + FracBits

\* a bit vector as an explicit tuple
Vector(f) == SubSeq(f, 1, Width)

FloatZero == Vector([i \in 1..Width |-> 0])

FloatOne == Vector([i \in 1..Width |-> IF i = IntBits THEN 1 ELSE 0])

\* fraction bits the long division yields per step
ChunkBits == 16

\* remainder of the long division r/m (r < m < 2^15) after c steps
RECURSIVE ChunkRem(_, _, _)
ChunkRem(r, m, c) ==
    IF c = 0 THEN r ELSE ChunkRem((r * 2^ChunkBits) % m, m, c - 1)

\* remainder of the long division r/m after n fraction bits
DivRem(r, m, n) ==
    (ChunkRem(r, m, n \div ChunkBits) * 2^(n % ChunkBits)) % m

\* n-th fraction bit of r/m (r < m)
DivBit(r, m, n) == IF 2 * DivRem(r, m, n - 1) >= m THEN 1 ELSE 0

\* carry into position i of a + b: some lower position generates a carry
\* and every position in between propagates it
CarryIn(a, b, i) ==
    \E j \in (i + 1)..Width :
        /\ a[j] + b[j] = 2
        /\ \A k \in (i + 1)..(j - 1) : a[k] + b[k] = 1

AddBits(a, b) ==
    Vector([i \in 1..Width |->
              (a[i] + b[i] + (IF CarryIn(a, b, i) THEN 1 ELSE 0)) % 2])

\* borrow from position i of a - b (a >= b)
BorrowIn(a, b, i) ==
    \E j \in (i + 1)..Width :
        /\ a[j] < b[j]
        /\ \A k \in (i + 1)..(j - 1) : a[k] = b[k]

SubBits(a, b) ==
    Vector([i \in 1..Width |->
              (a[i] - b[i] - (IF BorrowIn(a, b, i) THEN 1 ELSE 0)) % 2])

\* bits cut after position last and rounded there, ties to even; sticky
\* tells that the exact value has further nonzero bits below Width
RoundAt(bits, sticky, last) ==
    IF last >= Width THEN bits
    ELSE IF /\ bits[last + 1] = 1
            /\ \/ sticky
               \/ bits[last] = 1
               \/ \E i \in (last + 2)..Width : bits[i] = 1
         THEN AddBits(Vector([i \in 1..Width |-> IF i <= last THEN bits[i] ELSE 0]),
                      Vector([i \in 1..Width |-> IF i = last THEN 1 ELSE 0]))
         ELSE Vector([i \in 1..Width |-> IF i <= last THEN bits[i] ELSE 0])

\* position of the leading one of a nonzero bit vector
Leading(bits) ==
    CHOOSE i \in 1..Width : bits[i] = 1 /\ \A j \in 1..(i - 1) : bits[j] = 0

\* round an exact value to Mantissa significant bits
RoundNearestEven(bits, sticky) ==
    IF \A i \in 1..Width : bits[i] = 0 THEN FloatZero
    ELSE RoundAt(bits, sticky, Leading(bits) + Mantissa - 1)

\* d / m of two ints (true division, correctly rounded), 0 <= d < 4 * m
FloatDiv(d, m) ==
    RoundNearestEven(
        Vector([i \in 1..Width |->
                  IF i = 1 THEN (d \div m) \div 2
                  ELSE IF i = IntBits THEN (d \div m) % 2
                  ELSE DivBit(d % m, m, i - IntBits)]),
        DivRem(d % m, m, FracBits) # 0)

\* a - b of two floats, a >= b
FloatSub(a, b) == RoundNearestEven(SubBits(a, b), FALSE)

\* a + b of two floats
FloatAdd(a, b) == RoundNearestEven(AddBits(a, b), FALSE)

\* a / 2 (exact: no value of the scorer is subnormal)
FloatHalf(a) == Vector([i \in 1..Width |-> IF i = 1 THEN 0 ELSE a[i - 1]])

\* a > b
FloatGt(a, b) ==
    \E i \in 1..Width : a[i] > b[i] /\ \A j \in 1..(i - 1) : a[j] = b[j]

(***************************************************************************)
(* calculate_similarity                                                    *)
(***************************************************************************)
Min3(a, b, c) ==
    IF a <= b /\ a <= c THEN a ELSE IF b <= c THEN b ELSE c

Max(a, b) == IF a >= b THEN a ELSE b

\* inner loop "for j, c2 in enumerate(s2)"; j is Len(current_row)
RECURSIVE LevCells(_, _, _, _)
LevCells(c1, s2, previous_row, current_row) ==
    IF Len(current_row) > Len(s2) THEN current_row
    ELSE LevCells(c1, s2, previous_row,
           Append(current_row,
                  Min3(previous_row[Len(current_row) + 1] + 1,
                       current_row[Len(current_row)] + 1,
                       previous_row[Len(current_row)]
                         + (IF c1 # s2[Len(current_row)] THEN 1 ELSE 0))))

\* outer loop "for i, c1 in enumerate(s1)"; every row has Len(s2) + 1 cells
RECURSIVE LevRows(_, _, _, _)
LevRows(s1, s2, i, previous_row) ==
    IF i <= Len(s1) /\ Len(previous_row) = Len(s2) + 1
    THEN LevRows(s1, s2, i + 1, LevCells(s1[i], s2, previous_row, <<i>>))
    ELSE previous_row

RECURSIVE levenshtein_distance(_, _)
levenshtein_distance(s1, s2) ==
    IF Len(s1) < Len(s2) THEN levenshtein_distance(s2, s1)
    ELSE IF Len(s2) = 0 THEN Len(s1)
    ELSE LevRows(s1, s2, 1,
                 SubSeq([j \in 1..(Len(s2) + 1) |-> j - 1], 1, Len(s2) + 1))
            [Len(s2) + 1]

\* faulty variant: the distance is divided by the length of the first
\* string, not of the longer one
calculate_similarity_FirstLength(str1, str2) ==
    IF str1 = <<>> \/ str2 = <<>> THEN FloatZero
    ELSE IF str1 = str2 THEN FloatOne
    ELSE FloatSub(FloatOne,
                  FloatDiv(levenshtein_distance(str1, str2), Len(str1)))

\* 1.0 - (distance / max_len), with the two early returns
calculate_similarity(str1, str2) ==
    IF str1 = <<>> \/ str2 = <<>> THEN FloatZero
    ELSE IF str1 = str2 THEN FloatOne
    ELSE FloatSub(FloatOne,
                  FloatDiv(levenshtein_distance(str1, str2),
                           Max(Len(str1), Len(str2))))

(***************************************************************************)
(* extract_artist_title_comprehensive                                      *)
(***************************************************************************)
\* os.path.splitext(filename)[0]: cut at the last dot unless only dots
\* precede it
name_no_ext(filename) ==
    LET dots == {i \in 1..Len(filename) : filename[i] = "."}
    IN IF dots = {} THEN filename
       ELSE LET dotIndex == CHOOSE i \in dots : \A j \in dots : j <= i
            IN IF \E i \in 1..(dotIndex - 1) : filename[i] # "."
               THEN SubSeq(filename, 1, dotIndex - 1)
               ELSE filename

\* name.split(sep, 1) for a sep that occurs in name
SplitOnce(name, sep) ==
    LET p == Find(name, sep)
    IN <<SubSeq(name, 1, p - 1), From(name, p + Len(sep))>>

separators ==
    << <<" ", "-", " ">>, <<" ", "emdash", " ">>, <<" ", "endash", " ">>,
       <<"-">>, <<"_">>, <<"~">> >>

rev_separators == << <<" ", "-", " ">>, <<"-">> >>

ArtistMaxLen == 15

Strategy(name, artist, title) ==
    [strategy |-> name, artist |-> artist, title |-> title]

\* strategy 1: the tags read by EasyID3 / FLAC; a failed read is swallowed
MetadataStrategies(meta) ==
    IF meta.readable /\ meta.artist # <<>> /\ meta.title # <<>>
    THEN <<Strategy(<<"metadata">>, meta.artist, meta.title)>>
    ELSE <<>>

\* "if artist and title: strategies.append(...)"
NonEmptyPair(name, artist, title) ==
    IF artist # <<>> /\ title # <<>>
    THEN <<Strategy(name, artist, title)>>
    ELSE <<>>

\* strategy 2: "artist sep title", one per separator found in the name
RECURSIVE FilenameStrategies(_, _)
FilenameStrategies(name, k) ==
    IF k > Len(separators) THEN <<>>
    ELSE (IF Find(name, separators[k]) # 0
          THEN NonEmptyPair(<<"filename", separators[k]>>,
                            Strip(SplitOnce(name, separators[k])[1]),
                            Strip(SplitOnce(name, separators[k])[2]))
          ELSE <<>>)
         \o FilenameStrategies(name, k + 1)

\* the reversed pair is kept for a short artist only
ShortArtistPair(name, artist, title) ==
    IF Len(artist) <= ArtistMaxLen
    THEN NonEmptyPair(name, artist, title)
    ELSE <<>>

\* strategy 3: "title sep artist"
RECURSIVE ReversedStrategies(_, _)
ReversedStrategies(name, k) ==
    IF k > Len(rev_separators) THEN <<>>
    ELSE (IF Find(name, rev_separators[k]) # 0
          THEN ShortArtistPair(<<"filename_rev", rev_separators[k]>>,
                               Strip(SplitOnce(name, rev_separators[k])[2]),
                               Strip(SplitOnce(name, rev_separators[k])[1]))
          ELSE <<>>)
         \o ReversedStrategies(name, k + 1)

\* the character class [\s\-_]
IsSepChar(c) == IsSpace(c) \/ c \in {"-", "_"}

\* [\s\-_]+(.+)$ matches s from position t on
TailMatches(s, t) == t < Len(s) /\ IsSepChar(s[t])

\* end of the separator run that starts at t
RunEnd(s, t) ==
    IF \A i \in t..Len(s) : IsSepChar(s[i]) THEN Len(s)
    ELSE MinOf({i \in t..Len(s) : ~IsSepChar(s[i])}) - 1

\* the group (.+) of [\s\-_]+(.+)$ matched from t: the separator run is
\* greedy but leaves one character to the group
TailGroup(s, t) ==
    IF RunEnd(s, t) = Len(s) THEN <<s[Len(s)]>>
    ELSE From(s, RunEnd(s, t) + 1)

\* word\.?[\s\-_]+(.+)$ matches s from position j on: the position of the
\* separator run, 0 when there is no match; dot tells whether the pattern
\* has \.? after the word
WordAt(s, j, word, dot) ==
    IF ~MatchesAt(s, j, word, FALSE) THEN 0
    ELSE IF /\ dot
            /\ j + Len(word) <= Len(s)
            /\ s[j + Len(word)] = "."
            /\ TailMatches(s, j + Len(word) + 1)
         THEN j + Len(word) + 1
    ELSE IF TailMatches(s, j + Len(word)) THEN j + Len(word)
    ELSE 0

\* (.+?)[\s\-_]+word\.?[\s\-_]+(.+)$ with group 1 = s[1..k]: the position
\* of the second separator run, 0 when there is no match
WordTail(s, k, word, dot) ==
    IF k + 1 <= Len(s) /\ IsSepChar(s[k + 1])
    THEN WordAt(s, RunEnd(s, k + 1) + 1, word, dot)
    ELSE 0

\* the groups of the three patterns for the shortest group 1, s[1..k]
ArtistTitleGroups(name, k) ==
    <<Strategy(<<"regex", "artist-title">>,
               Strip(SubSeq(name, 1, k)),
               Strip(TailGroup(name, k + 1)))>>

TitleArtistGroups(name, k) ==
    <<Strategy(<<"regex", "title-artist">>,
               Strip(TailGroup(name, WordTail(name, k, <<"b", "y">>, FALSE))),
               Strip(SubSeq(name, 1, k)))>>

ArtistFeatGroups(name, k) ==
    <<Strategy(<<"regex", "artist-feat">>,
               Strip(SubSeq(name, 1, k)),
               Strip(TailGroup(name, WordTail(name, k, <<"f", "t">>, TRUE))))>>

\* re.match(r'^(.+?)[\s\-_]+(.+)$', name)
RegexArtistTitle(name) ==
    IF \A k \in 1..Len(name) : ~TailMatches(name, k + 1) THEN <<>>
    ELSE ArtistTitleGroups(name,
           MinOf({k \in 1..Len(name) : TailMatches(name, k + 1)}))

\* re.match(r'^(.+?)[\s\-_]+by[\s\-_]+(.+)$', name): group 1 is the title
RegexTitleArtist(name) ==
    IF \A k \in 1..Len(name) : WordTail(name, k, <<"b", "y">>, FALSE) = 0
    THEN <<>>
    ELSE TitleArtistGroups(name,
           MinOf({k \in 1..Len(name) :
                    WordTail(name, k, <<"b", "y">>, FALSE) # 0}))

\* re.match(r'^(.+?)[\s\-_]+ft\.?[\s\-_]+(.+)$', name)
RegexArtistFeat(name) ==
    IF \A k \in 1..Len(name) : WordTail(name, k, <<"f", "t">>, TRUE) = 0
    THEN <<>>
    ELSE ArtistFeatGroups(name,
           MinOf({k \in 1..Len(name) :
                    WordTail(name, k, <<"f", "t">>, TRUE) # 0}))

\* a cleaned pair is kept when both fields are non-empty
Cleaned(name, clean_artist, clean_title) ==
    IF clean_artist # <<>> /\ clean_title # <<>>
    THEN <<Strategy(name, clean_artist, clean_title)>>
    ELSE <<>>

\* "cleaned_strategies": both fields of every pair go through deep_clean_text
RECURSIVE CleanStrategies(_, _)
CleanStrategies(strategies, k) ==
    IF k > Len(strategies) THEN <<>>
    ELSE Cleaned(strategies[k].strategy,
                 deep_clean_text(strategies[k].artist),
                 deep_clean_text(strategies[k].title))
         \o CleanStrategies(strategies, k + 1)

\* the raw pairs of the four strategies, in order
RawStrategies(meta, name) ==
    MetadataStrategies(meta)
    \o FilenameStrategies(name, 1)
    \o ReversedStrategies(name, 1)
    \o RegexArtistTitle(name)
    \o RegexTitleArtist(name)
    \o RegexArtistFeat(name)

extract_artist_title_comprehensive(meta, filename) ==
    CleanStrategies(RawStrategies(meta, name_no_ext(filename)), 1)

(***************************************************************************)
(* build_smart_index                                                       *)
(***************************************************************************)
mp3 == <<".", "m", "p", "3">>

flac == <<".", "f", "l", "a", "c">>

\* faulty variant: a path that is no directory lists as an empty directory
listdir_NoError(folder) == [raised |-> FALSE, entries |-> folder.listing]

\* os.listdir(folder_path): the entries of a directory, OSError otherwise
listdir(folder) ==
    IF folder.kind = "dir"
    THEN [raised |-> FALSE, entries |-> folder.listing]
    ELSE [raised |-> TRUE, entries |-> <<>>]

\* the two "continue" tests of the loop
IsAudioFile(entry) ==
    /\ entry.isfile
    /\ \/ EndsWith(Lower(entry.name), mp3)
       \/ EndsWith(Lower(entry.name), flac)

\* faulty variant: the file is stored whatever the extractor yields
IndexItem_Unconditional(filename, strategies) ==
    <<[filename |-> filename, strategies |-> strategies]>>

\* "if strategies: file_index[filename] = strategies"
IndexItem(filename, strategies) ==
    IF strategies # <<>>
    THEN <<[filename |-> filename, strategies |-> strategies]>>
    ELSE <<>>

\* file_index after the loop over entries[k..]: parsed audio files in
\* listing order
RECURSIVE FileIndexFrom(_, _)
FileIndexFrom(entries, k) ==
    IF k > Len(entries) THEN <<>>
    ELSE (IF IsAudioFile(entries[k])
          THEN IndexItem(entries[k].name,
                         extract_artist_title_comprehensive(entries[k].meta,
                                                            entries[k].name))
          ELSE <<>>)
         \o FileIndexFrom(entries, k + 1)

\* the (key, filename) insertions of the reverse index loop, in order
RECURSIVE KeyInsertions(_, _, _)
KeyInsertions(file_index, f, k) ==
    IF f > Len(file_index) THEN <<>>
    ELSE IF k > Len(file_index[f].strategies)
         THEN KeyInsertions(file_index, f + 1, 1)
    ELSE <<[key      |-> <<file_index[f].strategies[k].artist,
                           file_index[f].strategies[k].title>>,
            filename |-> file_index[f].filename]>>
         \o KeyInsertions(file_index, f, k + 1)

\* the elements of s at the positions of the set idx, in order
RECURSIVE Pick(_, _, _)
Pick(s, idx, i) ==
    IF i > Len(s) THEN <<>>
    ELSE (IF i \in idx THEN <<s[i]>> ELSE <<>>) \o Pick(s, idx, i + 1)

\* the filenames of the elements of a list of insertions
Filenames(ins) == SubSeq([i \in 1..Len(ins) |-> ins[i].filename], 1, Len(ins))

\* reverse_index built from the insertions: an entry per distinct key, in
\* the order of the first insertion; every insertion appends its filename
\* to the list of its key
Grouped(ins) ==
    SubSeq([n \in 1..Len(ins) |->
              [key   |-> ins[n].key,
               files |-> Filenames(Pick(ins,
                           {i \in 1..Len(ins) : ins[i].key = ins[n].key}, 1))]],
           1, Len(ins))

FirstInsertions(ins) ==
    {i \in 1..Len(ins) : \A j \in 1..(i - 1) : ins[j].key # ins[i].key}

\* reverse_index = defaultdict(list), an insertion ordered dict
ReverseIndex(ins) == Pick(Grouped(ins), FirstInsertions(ins), 1)

\* positions <<f, k>> of the interpretations stored in the file index
Stored(file_index) ==
    UNION {{<<f, k>> : k \in 1..Len(file_index[f].strategies)} :
             f \in 1..Len(file_index)}

\* strategy_counts: how many stored interpretations carry each label
StrategyCounts(file_index) ==
    [l \in {file_index[p[1]].strategies[p[2]].strategy : p \in Stored(file_index)} |->
       Cardinality({p \in Stored(file_index) :
                      file_index[p[1]].strategies[p[2]].strategy = l})]

\* the value returned and the counters printed, given the file index
BuildFrom(entries, file_index) ==
    [file_index      |-> file_index,
     reverse_index   |-> ReverseIndex(KeyInsertions(file_index, 1, 1)),
     total_files     |-> Len(entries),
     audio_files     |-> Cardinality({k \in 1..Len(entries) :
                                        IsAudioFile(entries[k])}),
     unparsed        |-> Pick(SubSeq([k \in 1..Len(entries) |-> entries[k].name],
                                     1, Len(entries)),
                              {k \in 1..Len(entries) :
                                 /\ IsAudioFile(entries[k])
                                 /\ \A f \in 1..Len(file_index) :
                                       file_index[f].filename # entries[k].name},
                              1),
     strategy_counts |-> StrategyCounts(file_index)]

build_smart_index(entries) == BuildFrom(entries, FileIndexFrom(entries, 1))

NotCalled == [outcome |-> "not called"]

Raised == [outcome |-> "raised"]

Returned(built) ==
    [outcome         |-> "returned",
     total_files     |-> built.total_files,
     audio_files     |-> built.audio_files,
     unparsed        |-> built.unparsed,
     strategy_counts |-> built.strategy_counts]

(***************************************************************************)
(* find_unique_with_cross_check: the matching loop                         *)
(***************************************************************************)
\* the literals 0.8 and 0.85 as floats
ArtistGate == FloatDiv(8, 10)

AcceptAbove == FloatDiv(85, 100)

\* position of key in the reverse index, 0 when "key not in reverse"
KeyPosition(reverse, key) ==
    LET hits == {n \in 1..Len(reverse) : reverse[n].key = key}
    IN IF hits = {} THEN 0 ELSE CHOOSE n \in hits : TRUE

\* best_match is None
None == <<>>

NoBest == [best_match |-> None, best_similarity |-> FloatZero]

\* (artist_sim + title_sim) / 2
Overall(artist_sim, title_sim) == FloatHalf(FloatAdd(artist_sim, title_sim))

\* "if overall_sim > best_similarity": the new best pair, else the old one
Better(key1, overall_sim, best) ==
    IF FloatGt(overall_sim, best.best_similarity)
    THEN [best_match      |-> <<key1[1], key1[2], overall_sim>>,
          best_similarity |-> overall_sim]
    ELSE best

\* faulty variant: the gate lets an artist similarity of exactly 0.8 through
Gated_AtLeast(key1, title2, artist_sim, best) ==
    IF ~FloatGt(ArtistGate, artist_sim)
    THEN Better(key1,
                Overall(artist_sim, calculate_similarity(key1[2], title2)),
                best)
    ELSE best

\* "if artist_sim > 0.8": the title is scored only behind the artist gate
Gated(key1, title2, artist_sim, best) ==
    IF FloatGt(artist_sim, ArtistGate)
    THEN Better(key1,
                Overall(artist_sim, calculate_similarity(key1[2], title2)),
                best)
    ELSE best

\* "for key1 in reverse1.keys()" from the n-th key on, for one interpretation
RECURSIVE ScanKeys(_, _, _, _, _)
ScanKeys(reverse, n, artist2, title2, best) ==
    IF n > Len(reverse) \/ Len(best.best_similarity) # Width THEN best
    ELSE ScanKeys(reverse, n + 1, artist2, title2,
                  Gated(reverse[n].key, title2,
                        calculate_similarity(reverse[n].key[1], artist2),
                        best))

\* "for strategy2, artist2, title2 in strategies2" from the k-th
\* interpretation on; stops at the first exact key.  last is the
\* interpretation the loop variables are left on.
RECURSIVE ScanStrategies(_, _, _, _)
ScanStrategies(reverse, strategies2, k, best) ==
    IF k > Len(strategies2) \/ Len(best.best_similarity) # Width
    THEN [matched |-> FALSE, best |-> best, last |-> Len(strategies2)]
    ELSE IF KeyPosition(reverse,
                        <<strategies2[k].artist, strategies2[k].title>>) # 0
         THEN [matched |-> TRUE, best |-> best, last |-> k]
         ELSE ScanStrategies(reverse, strategies2, k + 1,
                ScanKeys(reverse, 1, strategies2[k].artist,
                         strategies2[k].title, best))

\* f"{artist}-{title}"
Joined(artist, title) == artist \o <<"-">> \o title

\* faulty variant: a best score above 0.85 is looked at before the exact match
Decide_FuzzyFirst(reverse, filename2, leftover, scan) ==
    IF /\ scan.best.best_match # None
       /\ FloatGt(scan.best.best_similarity, AcceptAbove)
    THEN [file       |-> filename2,
          type       |-> "fuzzy",
          similarity |-> scan.best.best_match[3],
          info2      |-> Joined(leftover.artist, leftover.title),
          info1      |-> Joined(scan.best.best_match[1],
                                scan.best.best_match[2])]
    ELSE IF scan.matched
    THEN [file  |-> filename2,
          type  |-> "exact",
          info2 |-> leftover.strategy,
          info1 |-> reverse[KeyPosition(reverse,
                              <<leftover.artist, leftover.title>>)].files[1]]
    ELSE None

\* the tuple appended to match_details after the scan of one file of index2,
\* None when the file is unique.  The text of a fuzzy match type carries
\* the similarity.
Decide(reverse, filename2, leftover, scan) ==
    IF scan.matched
    THEN [file  |-> filename2,
          type  |-> "exact",
          info2 |-> leftover.strategy,
          info1 |-> reverse[KeyPosition(reverse,
                              <<leftover.artist, leftover.title>>)].files[1]]
    ELSE IF /\ scan.best.best_match # None
            /\ FloatGt(scan.best.best_similarity, AcceptAbove)
    THEN [file       |-> filename2,
          type       |-> "fuzzy",
          similarity |-> scan.best.best_match[3],
          info2      |-> Joined(leftover.artist, leftover.title),
          info1      |-> Joined(scan.best.best_match[1],
                                scan.best.best_match[2])]
    ELSE None

Scanned(reverse, item, scan) ==
    Decide(reverse, item.filename, item.strategies[scan.last], scan)

MatchDetail(reverse, item) ==
    Scanned(reverse, item, ScanStrategies(reverse, item.strategies, 1, NoBest))

(***************************************************************************)
(* Inputs: directory entries [name, isfile, meta] and folders              *)
(***************************************************************************)
MaxRefFiles == 2

MaxCandFiles == 2

NoTags == [readable |-> FALSE, artist |-> <<>>, title |-> <<>>]

Tags(artist, title) == [readable |-> TRUE, artist |-> artist, title |-> title]

File(name, meta) == [name |-> name, isfile |-> TRUE, meta |-> meta]

Subdir(name) == [name |-> name, isfile |-> FALSE, meta |-> NoTags]

dash == <<" ", "-", " ">>

blackbirds == <<"b","l","a","c","k","b","i","r","d","s">>

Blackbirds == <<"B","l","a","c","k","b","i","r","d","s">>

\* one edit from blackbirds
blackbyrds == <<"b","l","a","c","k","b","y","r","d","s">>

\* two edits from blackbirds, one from blackbyrds
blackbyrdz == <<"b","l","a","c","k","b","y","r","d","z">>

hello == <<"h","e","l","l","o">>

Hello == <<"H","e","l","l","o">>

hellp == <<"h","e","l","l","p">>

Hellp == <<"H","e","l","l","p">>

\* entries offered to the first (reference) folder
RefPool ==
    { File(blackbirds \o dash \o hello \o flac, NoTags),
      File(Blackbirds \o dash \o Hello \o <<" ","(","L","i","v","e",")">> \o mp3, NoTags),
      File(blackbyrds \o dash \o hellp \o flac, NoTags),
      Subdir(<<"l","i","v","e">> \o mp3) }

\* entries offered to the second (candidate) folder
CandPool ==
    { File(blackbirds \o dash \o hello \o mp3, Tags(Blackbirds, Hellp)),
      File(blackbyrdz \o <<"_">> \o hello \o mp3, NoTags),
      File(<<"x","x","_","y","y">> \o mp3, Tags(Blackbirds, Hellp)),
      File(<<"s","o","n","g">> \o <<".","M","P","3">>, NoTags),
      File(<<"n","o","t","e","s",".","t","x","t">>, NoTags) }

\* directory listings: up to n entries of the pool with distinct names, in
\* any order (os.listdir promises no order)
Listings(pool, n) ==
    UNION {{l \in [1..k -> pool] :
              \A i, j \in 1..k : i # j => l[i].name # l[j].name} : k \in 0..n}

\* a folder path names a directory, nothing at all, or is the empty string
Folders(pool, n) ==
    {[kind |-> "dir", listing |-> l] : l \in Listings(pool, n)}
    \cup {[kind |-> k, listing |-> <<>>] : k \in {"missing", "emptypath"}}

(***************************************************************************)
(* The program: main_smart and find_unique_with_cross_check                *)
(***************************************************************************)
Idle == /\ c_in = <<>> /\ c_once = <<>> /\ c_twice = <<>>
        /\ s_a = <<>> /\ s_b = <<>> /\ s_ab = <<>> /\ s_ba = <<>>

Init ==
    /\ pc = "start"
    /\ folder1 \in Folders(RefPool, MaxRefFiles)
    /\ folder2 \in Folders(CandPool, MaxCandFiles)
    /\ index1 = <<>> /\ reverse1 = <<>> /\ diag1 = NotCalled
    /\ index2 = <<>> /\ reverse2 = <<>> /\ diag2 = NotCalled
    /\ unique_songs = <<>>
    /\ match_details = <<>>
    /\ pos = 0
    /\ Idle

\* main_smart up to its call of find_unique_with_cross_check: both paths
\* must exist (os.path.exists)
MainSmart ==
    /\ pc = "start"
    /\ pc' = IF folder1.kind = "dir" /\ folder2.kind = "dir"
             THEN "checked" ELSE "main_error"
    /\ UNCHANGED <<matchVars, canonVars, simVars>>

\* index1, reverse1 = build_smart_index(folder1, ...); the function is
\* entered from main_smart or called directly
BuildIndex1 ==
    /\ pc \in {"start", "checked"}
    /\ IF listdir(folder1).raised
       THEN /\ pc' = "raised"
            /\ diag1' = Raised
            /\ UNCHANGED <<index1, reverse1>>
       ELSE \E built \in {build_smart_index(listdir(folder1).entries)} :
               /\ pc' = "built1"
               /\ index1' = built.file_index
               /\ reverse1' = built.reverse_index
               /\ diag1' = Returned(built)
    /\ UNCHANGED <<folder1, folder2, index2, reverse2, diag2, unique_songs,
                   match_details, pos, canonVars, simVars>>

\* index2, reverse2 = build_smart_index(folder2, ...)
BuildIndex2 ==
    /\ pc = "built1"
    /\ IF listdir(folder2).raised
       THEN /\ pc' = "raised"
            /\ diag2' = Raised
            /\ UNCHANGED <<index2, reverse2, pos>>
       ELSE \E built \in {build_smart_index(listdir(folder2).entries)} :
               /\ pc' = "matching"
               /\ index2' = built.file_index
               /\ reverse2' = built.reverse_index
               /\ diag2' = Returned(built)
               /\ pos' = 1
    /\ UNCHANGED <<folder1, folder2, index1, reverse1, diag1, unique_songs,
                   match_details, canonVars, simVars>>

\* faulty variant: "if not matched" is lost, every file is appended to
\* unique_songs
MatchFile_AlwaysUnique ==
    /\ pc = "matching"
    /\ pos <= Len(index2)
    /\ \E detail \in {MatchDetail(reverse1, index2[pos])} :
          /\ match_details' = IF detail # None
                              THEN Append(match_details, detail)
                              ELSE match_details
          /\ unique_songs' = Append(unique_songs, index2[pos].filename)
    /\ pos' = pos + 1
    /\ UNCHANGED <<pc, folder1, folder2, index1, reverse1, diag1, index2,
                   reverse2, diag2, canonVars, simVars>>

\* one iteration of "for filename2, strategies2 in index2.items()"
MatchFile ==
    /\ pc = "matching"
    /\ pos <= Len(index2)
    /\ \E detail \in {MatchDetail(reverse1, index2[pos])} :
          IF detail # None
          THEN /\ match_details' = Append(match_details, detail)
               /\ UNCHANGED unique_songs
          ELSE /\ unique_songs' = Append(unique_songs, index2[pos].filename)
               /\ UNCHANGED match_details
    /\ pos' = pos + 1
    /\ UNCHANGED <<pc, folder1, folder2, index1, reverse1, diag1, index2,
                   reverse2, diag2, canonVars, simVars>>

\* the loop is exhausted: return unique_songs, match_details, len(index1),
\* len(index2)
Return ==
    /\ pc = "matching"
    /\ pos > Len(index2)
    /\ pc' = "done"
    /\ UNCHANGED <<matchVars, canonVars, simVars>>

Next == MainSmart \/ BuildIndex1 \/ BuildIndex2 \/ MatchFile \/ Return

Spec == Init /\ [][Next]_vars

(***************************************************************************)
(* deep_clean_text applied once and twice to a text                        *)
(***************************************************************************)
MaxTokens == 4

CanonTokens ==
    { <<"f","e","a","t">>, <<"f","t">>, <<"v","e","r">>, <<"L","i","v","e">>,
      <<".">>, <<" ">>, <<"x">>, <<"(">>, <<")">> }

\* the concatenations of up to n tokens
RECURSIVE Texts(_)
Texts(n) ==
    IF n = 0 THEN {<<>>}
    ELSE Texts(n - 1) \cup {t \o tok : t \in Texts(n - 1), tok \in CanonTokens}

\* find_unique_with_cross_check is not running
Parked ==
    /\ folder1 = [kind |-> "missing", listing |-> <<>>]
    /\ folder2 = [kind |-> "missing", listing |-> <<>>]
    /\ index1 = <<>> /\ reverse1 = <<>> /\ diag1 = NotCalled
    /\ index2 = <<>> /\ reverse2 = <<>> /\ diag2 = NotCalled
    /\ unique_songs = <<>>
    /\ match_details = <<>>
    /\ pos = 0

InitCanon ==
    /\ pc = "clean"
    /\ c_in \in Texts(MaxTokens)
    /\ c_once = <<>> /\ c_twice = <<>>
    /\ s_a = <<>> /\ s_b = <<>> /\ s_ab = <<>> /\ s_ba = <<>>
    /\ Parked

CleanOnce ==
    /\ pc = "clean"
    /\ c_once' = deep_clean_text(c_in)
    /\ pc' = "cleaned"
    /\ UNCHANGED <<c_in, c_twice, matchVars, simVars>>

CleanTwice ==
    /\ pc = "cleaned"
    /\ c_twice' = deep_clean_text(c_once)
    /\ pc' = "recleaned"
    /\ UNCHANGED <<c_in, c_once, matchVars, simVars>>

NextCanon == CleanOnce \/ CleanTwice

SpecCanon == InitCanon /\ [][NextCanon]_vars

(***************************************************************************)
(* calculate_similarity applied to a pair of strings, both ways round      *)
(***************************************************************************)
MaxSimLen == 3

SimAlphabet == {"a", "b", "c"}

SimStrings == UNION {[1..n -> SimAlphabet] : n \in 0..MaxSimLen}

InitSim ==
    /\ pc = "score"
    /\ s_a \in SimStrings
    /\ s_b \in SimStrings
    /\ s_ab = <<>> /\ s_ba = <<>>
    /\ c_in = <<>> /\ c_once = <<>> /\ c_twice = <<>>
    /\ Parked

Score ==
    /\ pc = "score"
    /\ s_ab' = calculate_similarity(s_a, s_b)
    /\ s_ba' = calculate_similarity(s_b, s_a)
    /\ pc' = "scored"
    /\ UNCHANGED <<s_a, s_b, matchVars, canonVars>>

NextSim == Score

SpecSim == InitSim /\ [][NextSim]_vars

(***************************************************************************)
(* Properties of find_unique_with_cross_check                              *)
(***************************************************************************)
\* similarity as the exact fraction <<numerator, denominator>>
\* 1 - distance / max_len, without rounding
ExactSimilarity(str1, str2) ==
    IF str1 = <<>> \/ str2 = <<>> THEN <<0, 1>>
    ELSE IF str1 = str2 THEN <<1, 1>>
    ELSE <<Max(Len(str1), Len(str2)) - levenshtein_distance(str1, str2),
           Max(Len(str1), Len(str2))>>

FracGt(x, y) == x[1] * y[2] > y[1] * x[2]

FracEq(x, y) == x[1] * y[2] = y[1] * x[2]

\* (x + y) / 2 as a fraction
FracMean(x, y) == <<x[1] * y[2] + y[1] * x[2], 2 * x[2] * y[2]>>

\* 0.8 and 0.85 as fractions
GateFrac == <<4, 5>>

CutFrac == <<17, 20>>

KeyOf(strategy) == <<strategy.artist, strategy.title>>

\* positions in index2 of the candidate files the loop has dealt with
Processed == {i \in 1..Len(index2) : i < pos}

\* <<k, n>>: interpretation k of candidate file i against key n of reverse1
Pairs(i) == (1..Len(index2[i].strategies)) \X (1..Len(reverse1))

ExactHits(i) ==
    {k \in 1..Len(index2[i].strategies) :
       \E n \in 1..Len(reverse1) :
          reverse1[n].key = KeyOf(index2[i].strategies[k])}

ArtistFrac(i, p) ==
    ExactSimilarity(reverse1[p[2]].key[1], index2[i].strategies[p[1]].artist)

TitleFrac(i, p) ==
    ExactSimilarity(reverse1[p[2]].key[2], index2[i].strategies[p[1]].title)

OverallFrac(i, p) == FracMean(ArtistFrac(i, p), TitleFrac(i, p))

\* <<artist of a key, artist of an interpretation of candidate file i>> with
\* a similarity above 0.8
GatedArtists(i) ==
    {a \in {reverse1[n].key[1] : n \in 1..Len(reverse1)}
           \X {index2[i].strategies[k].artist :
                 k \in 1..Len(index2[i].strategies)} :
       FracGt(ExactSimilarity(a[1], a[2]), GateFrac)}

GatedAmong(i, artists) ==
    {p \in Pairs(i) :
       <<reverse1[p[2]].key[1], index2[i].strategies[p[1]].artist>> \in artists}

\* the pairs whose artist similarity is above 0.8
GatedPairs(i) == GatedAmong(i, GatedArtists(i))

\* positions in match_details of the decisions about a candidate file
DetailsOf(filename) ==
    {d \in 1..Len(match_details) : match_details[d].file = filename}

IsUnique(filename) ==
    /\ filename \in Range(unique_songs)
    /\ DetailsOf(filename) = {}

\* the first file of index1 with an interpretation of the given key
FirstBearer(key) ==
    index1[MinOf({f \in 1..Len(index1) :
                    \E k \in 1..Len(index1[f].strategies) :
                       KeyOf(index1[f].strategies[k]) = key})].filename

\* C1: a candidate file with an interpretation whose key is in the
\* reference ReverseIndex gets exactly one decision; it is Exact, for the
\* first such interpretation in order, and refers to the first reference
\* file stored under that key; the file is not unique and gets no Fuzzy
\* decision, whatever the earlier interpretations scored.
C1_ExactFirst ==
    \A i \in Processed :
       ExactHits(i) # {} =>
          /\ Cardinality(DetailsOf(index2[i].filename)) = 1
          /\ index2[i].filename \notin Range(unique_songs)
          /\ \A d \in DetailsOf(index2[i].filename) :
                /\ match_details[d].type = "exact"
                /\ match_details[d].info2 =
                     index2[i].strategies[MinOf(ExactHits(i))].strategy
                /\ match_details[d].info1 =
                     FirstBearer(KeyOf(index2[i].strategies[MinOf(ExactHits(i))]))

\* an interpretation before the first exact one scores above 0.85 against
\* a gated key, the key of the exact one holds two different files, and the
\* decision is made
C1_Witness ==
    /\ pc = "done"
    /\ \E i \in Processed :
          /\ ExactHits(i) # {}
          /\ \E p \in GatedPairs(i) :
                /\ p[1] < MinOf(ExactHits(i))
                /\ FracGt(OverallFrac(i, p), CutFrac)
          /\ \E n \in 1..Len(reverse1) :
                /\ reverse1[n].key = KeyOf(index2[i].strategies[MinOf(ExactHits(i))])
                /\ Cardinality(Range(reverse1[n].files)) >= 2
          /\ \E d \in DetailsOf(index2[i].filename) :
                match_details[d].type = "exact"

\* C2: for a candidate file without an exact key, a best overall score of
\* exactly 0.85 leaves the file unique, and a best overall score above
\* 0.85 gives a Fuzzy decision.
C2_StrictCutoff ==
    \A i \in Processed :
       ExactHits(i) = {} =>
          /\ ( /\ \E p \in GatedPairs(i) : FracEq(OverallFrac(i, p), CutFrac)
               /\ \A p \in GatedPairs(i) : ~FracGt(OverallFrac(i, p), CutFrac) )
             => IsUnique(index2[i].filename)
          /\ (\E p \in GatedPairs(i) : FracGt(OverallFrac(i, p), CutFrac))
             => /\ index2[i].filename \notin Range(unique_songs)
                /\ \E d \in DetailsOf(index2[i].filename) :
                      match_details[d].type = "fuzzy"

\* C3: the key named by a Fuzzy decision has an artist similarity above
\* 0.8 to an interpretation of the file, and a candidate file without an
\* exact key whose artist similarities are all at most 0.8 is unique.
C3_ArtistGate ==
    \A i \in Processed :
       /\ \A d \in DetailsOf(index2[i].filename) :
             match_details[d].type = "fuzzy" =>
                \E p \in GatedPairs(i) :
                   match_details[d].info1 =
                      Joined(reverse1[p[2]].key[1], reverse1[p[2]].key[2])
       /\ (ExactHits(i) = {} /\ GatedPairs(i) = {})
             => IsUnique(index2[i].filename)

\* a unique file, one of whose interpretations has the title of a key and
\* an artist similarity of exactly 0.8 to it
C3_Witness ==
    /\ pc = "done"
    /\ \E i \in Processed :
          /\ ExactHits(i) = {}
          /\ GatedPairs(i) = {}
          /\ \E p \in Pairs(i) :
                /\ FracEq(ArtistFrac(i, p), GateFrac)
                /\ FracEq(TitleFrac(i, p), <<1, 1>>)
          /\ IsUnique(index2[i].filename)

\* some raw pair keeps an artist and a title through deep_clean_text
Interpretable(raw) ==
    \E k \in 1..Len(raw) :
       /\ deep_clean_text(raw[k].artist) # <<>>
       /\ deep_clean_text(raw[k].title) # <<>>

\* the audio files of a listing for which the extractor yields nothing
ZeroInterpretation(listing) ==
    {listing[k].name : k \in {j \in 1..Len(listing) :
        /\ IsAudioFile(listing[j])
        /\ ~Interpretable(RawStrategies(listing[j].meta,
                                        name_no_ext(listing[j].name)))}}

AudioCount(listing) ==
    Cardinality({k \in 1..Len(listing) : IsAudioFile(listing[k])})

\* what one build keeps of the zero-interpretation files of its listing
Dropped(zero, listing, file_index, reverse, diag) ==
    /\ \A f \in 1..Len(file_index) :
          /\ file_index[f].filename \notin zero
          /\ \A k \in 1..Len(file_index[f].strategies) :
                /\ file_index[f].strategies[k].artist # <<>>
                /\ file_index[f].strategies[k].title # <<>>
    /\ \A n \in 1..Len(reverse) : Range(reverse[n].files) \cap zero = {}
    /\ diag.audio_files = AudioCount(listing)
    /\ diag.audio_files = Len(file_index) + Cardinality(zero)
    /\ zero \subseteq Range(diag.unparsed)

\* what the matching loop keeps of the zero-interpretation files
Unmatched(zero) ==
    /\ Range(unique_songs) \cap zero = {}
    /\ \A d \in 1..Len(match_details) : match_details[d].file \notin zero

DroppedCandidates(zero) ==
    /\ Dropped(zero, folder2.listing, index2, reverse2, diag2)
    /\ Unmatched(zero)

\* C6: an audio file with no interpretation is in no FileIndex, under no
\* ReverseIndex key, not in uniqueFiles and in no MatchDecision, while the
\* diagnostics of the build count it among the audio files; every
\* interpretation stored has an artist and a title.
C6_ZeroInterpretation ==
    /\ diag1.outcome = "returned" =>
          Dropped(ZeroInterpretation(folder1.listing), folder1.listing,
                  index1, reverse1, diag1)
    /\ diag2.outcome = "returned" =>
          DroppedCandidates(ZeroInterpretation(folder2.listing))

\* the candidate folder holds an audio file without interpretation next to
\* a parsed one, and the loop has finished
C6_Witness ==
    /\ pc = "done"
    /\ ZeroInterpretation(folder2.listing) # {}
    /\ Len(index2) >= 1
    /\ diag2.audio_files > Len(index2)

\* C7: a build over a path that is no directory (missing, or the empty
\* string) raises to the caller and returns no indexes, not empty ones.
C7_BadPathRaises ==
    /\ diag1.outcome = "returned" => folder1.kind = "dir"
    /\ diag2.outcome = "returned" => folder2.kind = "dir"
    /\ (folder1.kind # "dir" /\ diag1 # NotCalled) =>
          /\ pc = "raised"
          /\ diag1 = Raised
          /\ diag2 = NotCalled
          /\ unique_songs = <<>> /\ match_details = <<>>
    /\ (folder2.kind # "dir" /\ diag2 # NotCalled) =>
          /\ pc = "raised"
          /\ diag2 = Raised
          /\ unique_songs = <<>> /\ match_details = <<>>
    /\ pc \in {"matching", "done"} =>
          folder1.kind = "dir" /\ folder2.kind = "dir"

\* the first build returned and the second, over the empty path, raised
C7_Witness ==
    /\ pc = "raised"
    /\ diag1.outcome = "returned"
    /\ folder2.kind = "emptypath"
    /\ diag2 = Raised

\* the filenames of index2 at the positions of the set idx, in order
Candidates(idx) ==
    Pick(SubSeq([i \in 1..Len(index2) |-> index2[i].filename], 1, Len(index2)),
         idx, 1)

DecidedFiles ==
    SubSeq([d \in 1..Len(match_details) |-> match_details[d].file],
           1, Len(match_details))

\* C8: the candidate files dealt with so far are split between uniqueFiles
\* and the decisions: each is in exactly one of them, once, the two lengths
\* add up to the number of files, and both lists are in FileIndex order.
C8_Partition ==
    /\ Len(unique_songs) + Len(match_details) = Cardinality(Processed)
    /\ Range(unique_songs) \cap Range(DecidedFiles) = {}
    /\ unique_songs =
          Candidates({i \in Processed : index2[i].filename \in Range(unique_songs)})
    /\ DecidedFiles =
          Candidates({i \in Processed : index2[i].filename \in Range(DecidedFiles)})
    /\ \A i \in Processed :
          \/ index2[i].filename \in Range(unique_songs)
          \/ index2[i].filename \in Range(DecidedFiles)
    /\ pc = "done" => Processed = 1..Len(index2)

\* two candidate files, the unique one after the matched one
C8_Witness ==
    /\ pc = "done"
    /\ Len(index2) = 2
    /\ unique_songs = <<index2[2].filename>>
    /\ DecidedFiles = <<index2[1].filename>>

\* the filenames of a file index with an interpretation of the given key
Bearers(file_index, key) ==
    {file_index[f].filename : f \in {g \in 1..Len(file_index) :
        \E k \in 1..Len(file_index[g].strategies) :
           KeyOf(file_index[g].strategies[k]) = key}}

\* a reverse index holds, under each key of an interpretation and under no
\* other, the files with an interpretation of that key, each of them once
SetOfFiles(file_index, reverse) ==
    /\ \A n \in 1..Len(reverse) :
          /\ Range(reverse[n].files) = Bearers(file_index, reverse[n].key)
          /\ Bearers(file_index, reverse[n].key) # {}
          /\ Len(reverse[n].files) = Cardinality(Range(reverse[n].files))
    /\ \A f \in 1..Len(file_index) :
          \A k \in 1..Len(file_index[f].strategies) :
             \E n \in 1..Len(reverse) :
                reverse[n].key = KeyOf(file_index[f].strategies[k])
    /\ \A n1, n2 \in 1..Len(reverse) :
          reverse[n1].key = reverse[n2].key => n1 = n2

\* C9: each key of a ReverseIndex maps to the set of the filenames with an
\* interpretation of that pair; a filename is stored under a key once, also
\* when several of its interpretations give the pair.
C9_SetOfFilenames ==
    /\ SetOfFiles(index1, reverse1)
    /\ SetOfFiles(index2, reverse2)

\* <<k, n>> comes before <<k2, n2>> in the scan of interpretations and keys
Before(p, q) == p[1] < q[1] \/ (p[1] = q[1] /\ p[2] < q[2])

\* the gated pairs of the best overall score, as the scorer computes it
FloatOverall(i, p) ==
    Overall(calculate_similarity(reverse1[p[2]].key[1],
                                 index2[i].strategies[p[1]].artist),
            calculate_similarity(reverse1[p[2]].key[2],
                                 index2[i].strategies[p[1]].title))

\* the best pair: no gated pair scores more, none before it scores as much
IsBestPair(i, p) ==
    /\ p \in GatedPairs(i)
    /\ \A q \in GatedPairs(i) :
          /\ ~FracGt(OverallFrac(i, q), OverallFrac(i, p))
          /\ Before(q, p) => FracGt(OverallFrac(i, p), OverallFrac(i, q))

\* C10: the similarity, the reference key and the candidate interpretation
\* of a Fuzzy decision are those of one pair, the best pair of the file
\* (the first one on ties).
C10_FuzzyBestPair ==
    \A i \in Processed :
       \A d \in DetailsOf(index2[i].filename) :
          match_details[d].type = "fuzzy" =>
             \E p \in GatedPairs(i) :
                /\ IsBestPair(i, p)
                /\ match_details[d].similarity = FloatOverall(i, p)
                /\ match_details[d].info1 =
                      Joined(reverse1[p[2]].key[1], reverse1[p[2]].key[2])
                /\ match_details[d].info2 =
                      Joined(index2[i].strategies[p[1]].artist,
                             index2[i].strategies[p[1]].title)

(***************************************************************************)
(* Properties of deep_clean_text and calculate_similarity                  *)
(***************************************************************************)
\* C4: cleaning a cleaned text changes nothing.
C4_Idempotent == pc = "recleaned" => c_twice = c_once

\* C5: the similarity does not depend on the order of its arguments, is 1.0
\* for equal non-empty strings and 0 when a string is empty, and lies
\* between 0 and 1 because the edit distance is at most the longer length.
C5_Similarity ==
    pc = "scored" =>
       /\ s_ab = s_ba
       /\ (s_a = s_b /\ s_a # <<>>) => s_ab = FloatOne
       /\ (s_a = <<>> \/ s_b = <<>>) => s_ab = FloatZero
       /\ ~FloatGt(s_ab, FloatOne)
       /\ ~FloatGt(FloatZero, s_ab)
       /\ levenshtein_distance(s_a, s_b) <= Max(Len(s_a), Len(s_b))
       /\ levenshtein_distance(s_a, s_b) = levenshtein_distance(s_b, s_a)
       /\ (s_a # <<>> /\ s_b # <<>> /\ s_a # s_b) =>
             s_ab = FloatSub(FloatOne,
                             FloatDiv(levenshtein_distance(s_b, s_a),
                                      Max(Len(s_a), Len(s_b))))

\* two different strings of different lengths with a common letter are
\* scored strictly between 0 and 1
C5_Witness ==
    /\ pc = "scored"
    /\ Len(s_a) < Len(s_b)
    /\ s_a # <<>>
    /\ Range(s_a) \cap Range(s_b) # {}
    /\ FloatGt(s_ab, FloatZero)
    /\ FloatGt(FloatOne, s_ab)

====
